---------------------------- MODULE Spec2Model ----------------------------
(***************************************************************************)
(* Model of the perioperative-risk inference service (backend_app.py) and  *)
(* of the pipeline it loads (train_model.py).                              *)
(*                                                                         *)
(* Text that the code inspects character by character (complication        *)
(* labels) is a sequence of one-character strings, so that str.lower(),    *)
(* ==, and the substring test `in` are computed, not assumed.  Dictionary  *)
(* keys, medication texts and exception names are only ever compared as a  *)
(* whole and are TLA+ strings.                                             *)
(***************************************************************************)
EXTENDS Integers, Sequences, FiniteSets, TLC

VARIABLES
    phase,        \* "boot" | "serving" | "failed": module import, then app.run
    modelFile,    \* the artifact on disk: NoFile or a fitted pipeline
    csvFile,      \* medication_map.csv on disk: NoFile or its data lines
    model,        \* module global `model`
    med_map_df,   \* module global `med_map_df`
    threads,      \* one record per request-handling thread
    call,         \* resolver harness: a call of recommend_from_complication
    memo,         \* resolver harness: the call made before it, on a probe input
    payload,      \* coercion harness: the JSON value handed to validate_and_build_df
    built         \* coercion harness: what validate_and_build_df returned or raised

vars == <<phase, modelFile, csvFile, model, med_map_df, threads, call, memo, payload, built>>

---------------------------------------------------------------------------
(* Bounds of the model.                                                    *)

\* complication inputs are concatenations of at most MaxParts fragments
MaxParts == 2
\* array payloads of the coercion harness hold at most MaxRecords elements
MaxRecords == 2

---------------------------------------------------------------------------
(* Python text.                                                            *)

UpperChars == <<"A","B","C","D","E","F","G","H","I","J","K","L","M",
                "N","O","P","Q","R","S","T","U","V","W","X","Y","Z">>

LowerChars == <<"a","b","c","d","e","f","g","h","i","j","k","l","m",
                "n","o","p","q","r","s","t","u","v","w","x","y","z">>

DigitChars == <<"0","1","2","3","4","5","6","7","8","9">>

\* one character of str.lower()
LowerChar(c) ==
    IF \E i \in 1..Len(UpperChars) : UpperChars[i] = c
    THEN LowerChars[CHOOSE i \in 1..Len(UpperChars) : UpperChars[i] = c]
    ELSE c

\* str.lower()
Lower(s) == [i \in 1..Len(s) |-> LowerChar(s[i])]

\* the operator `needle in hay` on str
Contains(hay, needle) ==
    \E i \in 1..(Len(hay) - Len(needle) + 1) :
        SubSeq(hay, i, i + Len(needle) - 1) = needle

RECURSIVE NatStr(_)
\* str(n) for an int n >= 0
NatStr(n) ==
    IF n < 10 THEN <<DigitChars[n + 1]>>
    ELSE NatStr(n \div 10) \o <<DigitChars[(n % 10) + 1]>>

\* str(n) for an int
IntStr(n) == IF n < 0 THEN <<"-">> \o NatStr(0 - n) ELSE NatStr(n)

---------------------------------------------------------------------------
(* JSON values as request.get_json() returns them.  One record shape for   *)
(* every value: t is the Python type, n the number (bool: 0/1), s the      *)
(* text, fields the (key, value) pairs of a dict in insertion order,       *)
(* items the elements of a list.                                           *)

JNone == [t |-> "NoneType", n |-> 0, s |-> <<>>, fields |-> <<>>, items |-> <<>>]

JInt(n) == [t |-> "int", n |-> n, s |-> <<>>, fields |-> <<>>, items |-> <<>>]

JFloat(n) == [t |-> "float", n |-> n, s |-> <<>>, fields |-> <<>>, items |-> <<>>]

JBool(b) == [t |-> "bool", n |-> IF b THEN 1 ELSE 0, s |-> <<>>, fields |-> <<>>, items |-> <<>>]

JStr(s) == [t |-> "str", n |-> 0, s |-> s, fields |-> <<>>, items |-> <<>>]

JObj(fields) == [t |-> "dict", n |-> 0, s |-> <<>>, fields |-> fields, items |-> <<>>]

JArr(items) == [t |-> "list", n |-> 0, s |-> <<>>, fields |-> <<>>, items |-> items]

\* a float NaN cell of a DataFrame (never a JSON input)
NaN == [t |-> "nan", n |-> 0, s |-> <<>>, fields |-> <<>>, items |-> <<>>]

\* one (key, value) pair of a dict
KV(k, v) == [k |-> k, v |-> v]

\* `key in d` for a dict
HasKey(d, key) == \E i \in 1..Len(d.fields) : d.fields[i].k = key

\* d[key] for a dict holding key (JSON parsing keeps the last duplicate; the
\* payloads of this model hold no duplicate key)
Get(d, key) == d.fields[CHOOSE i \in 1..Len(d.fields) : d.fields[i].k = key].v

\* str(v) for the scalar values a label can be
PyStr(v) ==
    CASE v.t = "str" -> v.s
      [] v.t = "NoneType" -> <<"N","o","n","e">>
      [] v.t = "bool" -> IF v.n = 1 THEN <<"T","r","u","e">> ELSE <<"F","a","l","s","e">>
      [] v.t = "int" -> IntStr(v.n)
      [] v.t = "float" -> IntStr(v.n) \o <<".","0">>
      [] v.t = "nan" -> <<"n","a","n">>

\* bool(v): Python truthiness, as `not payload` reads it
Truthy(v) ==
    CASE v.t = "NoneType" -> FALSE
      [] v.t \in {"bool", "int", "float"} -> v.n # 0
      [] v.t = "str" -> Len(v.s) > 0
      [] v.t = "dict" -> Len(v.fields) > 0
      [] v.t = "list" -> Len(v.items) > 0
      [] OTHER -> TRUE

---------------------------------------------------------------------------
(* Labels and keywords, spelled out as character sequences.                *)

sInfection == <<"I","n","f","e","c","t","i","o","n">>

sBleeding == <<"B","l","e","e","d","i","n","g">>

sOrganFailure == <<"O","r","g","a","n"," ","F","a","i","l","u","r","e">>

sNone == <<"N","o","n","e">>

kwInfect == <<"i","n","f","e","c","t">>

kwBleed == <<"b","l","e","e","d">>

kwOrgan == <<"o","r","g","a","n">>

kwFailure == <<"f","a","i","l","u","r","e">>

---------------------------------------------------------------------------
(* Startup: the files next to the module and what loading them gives.      *)

\* the absence of a file
NoFile == [exists |-> FALSE, header |-> FALSE, lines |-> <<>>]

\* a medication_map.csv with a header line and the given data lines
CsvOf(lines) == [exists |-> TRUE, header |-> TRUE, lines |-> lines]

\* a medication_map.csv of zero bytes
CsvZeroBytes == [exists |-> TRUE, header |-> FALSE, lines |-> <<>>]

\* one data line of the CSV, cell texts as written in the file
CsvLine(c, m, d, u) ==
    [Complication |-> c, Recommended_Medication |-> m, Dosage |-> d, Duration |-> u]

\* cell texts pandas.read_csv reads as missing whatever the pandas version
\* ("None" joined the list in pandas 2.0 and is not used in a file of this model)
NaTexts == {"", "#N/A", "#N/A N/A", "#NA", "-1.#IND", "-1.#QNAN", "-NaN", "-nan",
            "1.#IND", "1.#QNAN", "<NA>", "N/A", "NA", "NULL", "NaN", "n/a", "nan", "null"}

\* the same for a label cell, of which the files of this model use these
NaLabels == {<<>>, <<"N","A">>, <<"n","a","n">>, <<"n","u","l","l">>}

\* the float NaN that stands in a text column for a missing cell
NaNText == "NaN"

\* pandas.read_csv on one text cell
ReadTextCell(x) == IF x \in NaTexts THEN NaNText ELSE x

\* pandas.read_csv on one label cell
ReadLabelCell(x) == IF x \in NaLabels THEN NaN ELSE JStr(x)

\* pd.read_csv(MEDMAP_FILENAME) for a file with its header line
read_csv(f) ==
    [i \in 1..Len(f.lines) |->
        [Complication |-> ReadLabelCell(f.lines[i].Complication),
         Recommended_Medication |-> ReadTextCell(f.lines[i].Recommended_Medication),
         Dosage |-> ReadTextCell(f.lines[i].Dosage),
         Duration |-> ReadTextCell(f.lines[i].Duration)]]

\* pd.read_csv raises EmptyDataError on a file without a header line
ReadCsvRaises(f) == f.exists /\ ~f.header

\* the minimal fallback map
FallbackMap ==
    << [Complication |-> JStr(sInfection), Recommended_Medication |-> "Antibiotics",
        Dosage |-> "500 mg/day", Duration |-> "7 days"],
       [Complication |-> JStr(sBleeding),
        Recommended_Medication |-> "Blood Transfusion + Hemostatic Agent",
        Dosage |-> "2 units", Duration |-> "1 days"],
       [Complication |-> JStr(sOrganFailure),
        Recommended_Medication |-> "IV Fluids + Vasopressors",
        Dosage |-> "2 L/day", Duration |-> "5 days"],
       [Complication |-> JStr(sNone), Recommended_Medication |-> "Pain Management",
        Dosage |-> "100 mg/day", Duration |-> "1 days"] >>

\* the value med_map_df gets at import when reading raises nothing
LoadMedMap(f) == IF f.exists THEN read_csv(f) ELSE FallbackMap

\* a CSV whose labels differ from the built-in ones: two rows that differ only
\* in case, a label holding two keywords, a row without label, a missing dosage
CsvSample ==
    CsvOf(<< CsvLine(<<"i","n","f","e","c","t","i","o","n">>, "Cefazolin", "1 g/day", "3 days"),
             CsvLine(<<"I","N","F","E","C","T","I","O","N">>, "Antibiotics", "500 mg/day", "7 days"),
             CsvLine(<<"O","r","g","a","n"," ","b","l","e","e","d">>, "Tranexamic Acid", "1 g", "2 days"),
             CsvLine(<<>>, "Paracetamol", "N/A", "1 days") >>)

\* the files medication_map.csv can be
CsvFiles == {NoFile, CsvSample, CsvZeroBytes}

---------------------------------------------------------------------------
(* The recommendation resolver.                                            *)

\* what a call returns: the exception it raised ("" if none) and the dict
Returned(rec) == [exc |-> "", rec |-> rec]

\* the dict of a recommendation
Rec(m, d, u, src) ==
    [Recommended_Medication |-> m, Dosage |-> d, Duration |-> u, Source |-> src]

\* filler for the dict of a call that raised
NoRec == Rec("", "", "", "")

\* a call that raised exc
Raised(exc) == [exc |-> exc, rec |-> NoRec]

\* Series.str.lower() on one cell: a missing cell stays missing
str_lower(cell) == IF cell.t = "str" THEN JStr(Lower(cell.s)) ELSE cell

\* Series == text on one cell: NaN equals nothing
SeriesEq(cell, text) == cell.t = "str" /\ cell.s = text

\* dict.get(key, default) on a row
RowGet(r, key, default) == IF key \in DOMAIN r THEN r[key] ELSE default

\* a faulty variant: keywords are tried before the table
recommend_rules_first(complication) ==
    LET comp == Lower(PyStr(complication))
        Match(r) == SeriesEq(str_lower(r.Complication), comp)
        row == SelectSeq(med_map_df, Match)
    IN  IF Contains(comp, kwInfect)
        THEN Returned(Rec("Antibiotics", "500 mg/day", "7 days", "rule"))
        ELSE IF Contains(comp, kwBleed)
        THEN Returned(Rec("Blood Transfusion + Hemostatic Agent", "2 units", "1 days", "rule"))
        ELSE IF Contains(comp, kwOrgan) \/ Contains(comp, kwFailure)
        THEN Returned(Rec("IV Fluids + Vasopressors", "2 L/day", "5 days", "rule"))
        ELSE IF row # <<>>
        THEN Returned(Rec(row[1].Recommended_Medication, row[1].Dosage,
                          row[1].Duration, "medication_map.csv"))
        ELSE Returned(Rec("Pain Management", "100 mg/day", "1 days", "rule"))

\* a faulty variant: complication.lower() without str(), which only a str has
recommend_without_str(complication) ==
    IF complication.t # "str"
    THEN Raised("AttributeError")
    ELSE LET Match(r) == SeriesEq(str_lower(r.Complication), Lower(complication.s))
             row == SelectSeq(med_map_df, Match)
         IN  IF row # <<>>
             THEN Returned(Rec(row[1].Recommended_Medication, row[1].Dosage,
                               row[1].Duration, "medication_map.csv"))
             ELSE Returned(Rec("Pain Management", "100 mg/day", "1 days", "rule"))

\* a faulty variant: every answer is tagged as a rule
recommend_untagged(complication) ==
    LET Match(r) == SeriesEq(str_lower(r.Complication), Lower(PyStr(complication)))
        row == SelectSeq(med_map_df, Match)
    IN  IF row # <<>>
        THEN Returned(Rec(row[1].Recommended_Medication, row[1].Dosage,
                          row[1].Duration, "rule"))
        ELSE Returned(Rec("Pain Management", "100 mg/day", "1 days", "rule"))

\* recommend_from_complication(complication), reading the global med_map_df
recommend_from_complication(complication) ==
    LET Match(r) == SeriesEq(str_lower(r.Complication), Lower(PyStr(complication)))
        row == SelectSeq(med_map_df, Match)
        comp == Lower(PyStr(complication))
    IN  IF row # <<>>
        THEN LET r == row[1]
             IN  Returned(Rec(RowGet(r, "Recommended_Medication", "No recommendation"),
                              RowGet(r, "Dosage", "N/A"),
                              RowGet(r, "Duration", "N/A"),
                              "medication_map.csv"))
        ELSE IF Contains(comp, kwInfect)
        THEN Returned(Rec("Antibiotics", "500 mg/day", "7 days", "rule"))
        ELSE IF Contains(comp, kwBleed)
        THEN Returned(Rec("Blood Transfusion + Hemostatic Agent", "2 units", "1 days", "rule"))
        ELSE IF Contains(comp, kwOrgan) \/ Contains(comp, kwFailure)
        THEN Returned(Rec("IV Fluids + Vasopressors", "2 L/day", "5 days", "rule"))
        ELSE Returned(Rec("Pain Management", "100 mg/day", "1 days", "rule"))

---------------------------------------------------------------------------
(* Feature coercion.  A DataFrame is its column names in order and its     *)
(* rows, each the cells of the row in column order.                        *)

EXPECTED_FEATURES ==
    <<"Age", "Gender", "BMI", "ASA_Score", "Diabetes", "Hypertension", "Heart_Disease",
      "Preop_Hb", "Preop_WBC", "Surgery_Type", "Duration_Min", "Blood_Loss_ml",
      "Vital_Instability", "Postop_Hb", "Postop_WBC">>

\* a DataFrame
Frame(columns, data) == [columns |-> columns, data |-> data]

\* filler for the frame of a call that raised
NoFrame == Frame(<<>>, <<>>)

\* the position of a column name in a list of names holding it
IndexOf(columns, c) == CHOOSE j \in 1..Len(columns) : columns[j] = c

\* `c in columns`
InColumns(columns, c) == \E j \in 1..Len(columns) : columns[j] = c

RECURSIVE AppendNew(_, _)
\* columns, then the keys not yet among them, in the order of the keys
AppendNew(columns, keys) ==
    IF keys = <<>> THEN columns
    ELSE AppendNew(IF InColumns(columns, Head(keys)) THEN columns
                   ELSE Append(columns, Head(keys)),
                   Tail(keys))

RECURSIVE UnionOfKeys(_, _)
\* the keys of a list of dicts, each at its first appearance
UnionOfKeys(columns, records) ==
    IF records = <<>> THEN columns
    ELSE UnionOfKeys(AppendNew(columns, [i \in 1..Len(Head(records).fields) |->
                                            Head(records).fields[i].k]),
                     Tail(records))

\* the cells of one column as pandas stores them: a column of numbers with a
\* missing cell or a float is float64 (int becomes float, None becomes NaN);
\* any other column keeps its values
InferColumn(raw) ==
    LET kinds == {raw[i].t : i \in 1..Len(raw)}
        float64 == /\ kinds \subseteq {"int", "float", "NoneType", "nan"}
                   /\ kinds \cap {"int", "float"} # {}
                   /\ kinds # {"int"}
    IN  [i \in 1..Len(raw) |->
            IF ~float64 THEN raw[i]
            ELSE IF raw[i].t = "int" THEN JFloat(raw[i].n)
            ELSE IF raw[i].t = "NoneType" THEN NaN
            ELSE raw[i]]

\* pd.DataFrame(records) for a list whose elements are dicts or scalars; exc is
\* the exception raised, "" if none
DataFrame(records) ==
    IF records = <<>> THEN [exc |-> "", df |-> Frame(<<>>, <<>>)]
    ELSE IF records[1].t = "dict"
    THEN IF \E i \in 1..Len(records) : records[i].t # "dict"
         THEN [exc |-> "AttributeError", df |-> NoFrame]
         ELSE LET columns == UnionOfKeys(<<>>, records)
                  column(j) == InferColumn([i \in 1..Len(records) |->
                                   IF HasKey(records[i], columns[j])
                                   THEN Get(records[i], columns[j]) ELSE NaN])
              IN  [exc |-> "",
                   df |-> Frame(columns, [i \in 1..Len(records) |->
                                            [j \in 1..Len(columns) |-> column(j)[i]]])]
    ELSE LET column == InferColumn(records)
         IN  [exc |-> "",
              df |-> Frame(<<"0">>, [i \in 1..Len(records) |-> <<column[i]>>])]

RECURSIVE FillMissing(_, _)
\* for col in EXPECTED_FEATURES: if col not in df.columns: df[col] = None
FillMissing(df, cols) ==
    IF cols = <<>> THEN df
    ELSE FillMissing(IF InColumns(df.columns, Head(cols)) THEN df
                     ELSE Frame(Append(df.columns, Head(cols)),
                                [i \in 1..Len(df.data) |-> Append(df.data[i], JNone)]),
                     Tail(cols))

\* df[cols]
SelectColumns(df, cols) ==
    Frame(cols, [i \in 1..Len(df.data) |->
                    [j \in 1..Len(cols) |-> df.data[i][IndexOf(df.columns, cols[j])]]])

\* the exception of validate_and_build_df on a payload of the wrong type
PayloadTypeError == "Payload must be a JSON object or array of objects."

\* a faulty variant: the columns are filled in but not put in the expected order
validate_without_selection(payload_) ==
    IF payload_.t \notin {"dict", "list"}
    THEN [exc |-> "ValueError", msg |-> PayloadTypeError, df |-> NoFrame]
    ELSE LET made == DataFrame(IF payload_.t = "dict" THEN <<payload_>> ELSE payload_.items)
         IN  IF made.exc # "" THEN [exc |-> made.exc, msg |-> "pandas", df |-> NoFrame]
             ELSE [exc |-> "", msg |-> "", df |-> FillMissing(made.df, EXPECTED_FEATURES)]

\* validate_and_build_df(payload): the exception raised ("" if none), its
\* message, and the DataFrame returned
validate_and_build_df(payload_) ==
    IF payload_.t \notin {"dict", "list"}
    THEN [exc |-> "ValueError", msg |-> PayloadTypeError, df |-> NoFrame]
    ELSE LET records == IF payload_.t = "dict" THEN <<payload_>> ELSE payload_.items
             made == DataFrame(records)
         IN  IF made.exc # "" THEN [exc |-> made.exc, msg |-> "pandas", df |-> NoFrame]
             ELSE [exc |-> "", msg |-> "",
                   df |-> SelectColumns(FillMissing(made.df, EXPECTED_FEATURES),
                                        EXPECTED_FEATURES)]

---------------------------------------------------------------------------
(* The fitted pipeline.  What the tree learned is data of the artifact,    *)
(* not code: two stand-in trees, each a function of the row alone.         *)

\* the columns the pipeline one-hot encodes; it scales the others
categorical ==
    {"Gender", "Diabetes", "Hypertension", "Heart_Disease", "Surgery_Type",
     "Vital_Instability"}

\* a fitted pipeline: its tree, whether this scikit-learn lets missing values
\* through to the tree, whether it exposes predict_proba and classes_
Pipeline(tree, allow_nan, proba, classes) ==
    [tree |-> tree, allow_nan |-> allow_nan, predict_proba |-> proba, classes_ |-> classes]

\* the value of `model` before the artifact is loaded
NoPipeline == Pipeline("", FALSE, FALSE, FALSE)

\* the artifacts complication_predictor_pipeline.pkl can hold
Pipelines ==
    {Pipeline("treeA", FALSE, TRUE, TRUE), Pipeline("treeA", TRUE, TRUE, TRUE),
     Pipeline("treeB", TRUE, FALSE, FALSE)}

\* the artifact files: absent, or one of the pipelines
ModelFiles ==
    {[exists |-> FALSE, pipeline |-> NoPipeline]} \cup
    {[exists |-> TRUE, pipeline |-> p] : p \in Pipelines}

\* the cell of a row of the expected columns
Cell(row, c) == row[IndexOf(EXPECTED_FEATURES, c)]

\* a cell is missing
IsMissing(cell) == cell.t \in {"NoneType", "nan"}

\* the number of a cell is above a threshold of the tree; a missing one is not
Above(cell, x) == cell.t \in {"int", "float", "bool"} /\ cell.n > x

\* the label the tree gives one row
Tree(tree, row) ==
    IF tree = "treeA"
    THEN IF Above(Cell(row, "Blood_Loss_ml"), 500) THEN sBleeding
         ELSE IF Above(Cell(row, "Postop_WBC"), 11) THEN sInfection
         ELSE IF Cell(row, "Vital_Instability") = JStr(<<"Y","e","s">>) THEN sOrganFailure
         ELSE sNone
    ELSE IF Above(Cell(row, "Age"), 65) THEN sOrganFailure
         ELSE IF Above(Cell(row, "Blood_Loss_ml"), 500) THEN sBleeding
         ELSE sInfection

\* the transformers raise: no row at all, a scaled column holding what is no
\* number, or a missing value this scikit-learn does not let through
TransformRaises(pipeline, df) ==
    \/ df.data = <<>>
    \/ \E i \in 1..Len(df.data), j \in 1..Len(EXPECTED_FEATURES) :
          \/ /\ EXPECTED_FEATURES[j] \notin categorical
             /\ df.data[i][j].t \in {"str", "dict", "list"}
          \/ /\ IsMissing(df.data[i][j])
             /\ ~pipeline.allow_nan

\* a faulty variant: one label for the whole batch
predict_first_row(pipeline, df) ==
    IF TransformRaises(pipeline, df)
    THEN [exc |-> "ValueError", msg |-> "sklearn", preds |-> <<>>]
    ELSE [exc |-> "", msg |-> "", preds |-> <<Tree(pipeline.tree, df.data[1])>>]

\* model.predict(df): the exception raised ("" if none) and the labels
predict(pipeline, df) ==
    IF TransformRaises(pipeline, df)
    THEN [exc |-> "ValueError", msg |-> "sklearn", preds |-> <<>>]
    ELSE [exc |-> "", msg |-> "",
          preds |-> [i \in 1..Len(df.data) |-> Tree(pipeline.tree, df.data[i])]]

---------------------------------------------------------------------------
(* The service: import of the module, then the request handlers.  Each     *)
(* handler runs on a thread of its own, in three steps: parse and coerce,  *)
(* infer, assemble the response.                                           *)

\* the request-handling threads
Threads == {"t1", "t2"}

\* a body request.get_json() cannot parse
Malformed == [t |-> "malformed", n |-> 0, s |-> <<>>, fields |-> <<>>, items |-> <<>>]

\* one entry of predictions, recommendations or results; Probabilities is
\* "absent", "by_class" (a dict over classes_) or "list" (the bare list)
Entry(label, has_rec, rec, probabilities) ==
    [Complication |-> label, has_rec |-> has_rec, Recommendation |-> rec,
     Probabilities |-> probabilities]

\* an HTTP response: code 0 stands for none yet; list is the key of the list of
\* entries ("" if the body holds none); complication and recommendation are
\* the keys of the direct answer of /recommend
Response(code, status, error, trace, list, entries, direct, complication, recommendation) ==
    [code |-> code, status |-> status, error |-> error, trace |-> trace,
     list |-> list, entries |-> entries, direct |-> direct,
     complication |-> complication, recommendation |-> recommendation]

\* no response yet
NoResponse == Response(0, "", "", FALSE, "", <<>>, FALSE, JNone, NoRec)

\* jsonify({"status": "ok", list: entries})
OkList(list, entries) == Response(200, "ok", "", FALSE, list, entries, FALSE, JNone, NoRec)

\* jsonify({"status":"ok","complication": comp, "recommendation": rec})
OkDirect(comp, rec) == Response(200, "ok", "", FALSE, "", <<>>, TRUE, comp, rec)

\* what the client gets when an exception leaves the view function
Escaped(msg) == Response(500, "", msg, FALSE, "", <<>>, FALSE, JNone, NoRec)

\* a faulty variant: only ValueError is caught
HandlerExceptValueError(exc, msg) ==
    IF exc = "ValueError"
    THEN Response(400, "error", msg, TRUE, "", <<>>, FALSE, JNone, NoRec)
    ELSE Escaped(msg)

\* except Exception as e: the 400 response with str(e) and the trace
HandlerExcept(exc, msg) ==
    Response(400, "error", msg, TRUE, "", <<>>, FALSE, JNone, NoRec)

\* a thread: its place in the handler, the request, the handler's locals, the
\* functions it has called so far, and the response
Thread(pc, route, body, df, preds, probs, calls, resp) ==
    [pc |-> pc, route |-> route, body |-> body, df |-> df, preds |-> preds,
     probs |-> probs, calls |-> calls, resp |-> resp]

\* a thread with no request
Idle == Thread("idle", "", JNone, NoFrame, <<>>, FALSE, {}, NoResponse)

\* the thread returns resp
Finish(t, calls, resp) ==
    threads' = [threads EXCEPT ![t].pc = "done", ![t].calls = calls, ![t].resp = resp]

\* a faulty variant: resolving lowers the labels of the shared table in place
GlobalTableLowered(df) ==
    [i \in 1..Len(df) |-> [df[i] EXCEPT !.Complication = str_lower(@)]]

\* med_map_df after a handler step: the steps only read it
GlobalTableAfterStep(df) == df

\* model after a handler step: predict and predict_proba only read it
GlobalModelAfterStep(m) == m

\* what every handler step leaves of the state outside its thread
StepFrame ==
    /\ model' = GlobalModelAfterStep(model)
    /\ med_map_df' = GlobalTableAfterStep(med_map_df)
    /\ UNCHANGED <<phase, modelFile, csvFile, call, memo, payload, built>>

\* a faulty variant: a missing artifact is not checked for
ImportRaisesNever(mf, cf) == FALSE

\* import of backend_app raises: no artifact, or a CSV that cannot be read
ImportRaises(mf, cf) == ~mf.exists \/ ReadCsvRaises(cf)

\* import of the module, then app.run
Startup ==
    /\ phase = "boot"
    /\ \/ /\ ImportRaises(modelFile, csvFile)
          /\ phase' = "failed"
          /\ model' = IF modelFile.exists THEN modelFile.pipeline ELSE model
          /\ UNCHANGED med_map_df
       \/ /\ ~ImportRaises(modelFile, csvFile)
          /\ phase' = "serving"
          /\ model' = modelFile.pipeline
          /\ med_map_df' = LoadMedMap(csvFile)
    /\ UNCHANGED <<modelFile, csvFile, threads, call, memo, payload, built>>

\* a request reaches a free thread
Receive(t, route, body) ==
    /\ phase = "serving"
    /\ threads[t].pc = "idle"
    /\ threads' = [threads EXCEPT ![t] =
                      Thread("recv", route, body, NoFrame, <<>>, FALSE, {}, NoResponse)]
    /\ UNCHANGED <<phase, modelFile, csvFile, model, med_map_df, call, memo, payload, built>>

\* the response has been sent
Deliver(t) ==
    /\ threads[t].pc = "done"
    /\ threads' = [threads EXCEPT ![t] = Idle]
    /\ UNCHANGED <<phase, modelFile, csvFile, model, med_map_df, call, memo, payload, built>>

\* index()
Index(t) ==
    /\ threads[t].pc = "recv"
    /\ threads[t].route = "/"
    /\ Finish(t, {}, OkList("", <<>>))
    /\ StepFrame

\* payload = request.get_json(); df = validate_and_build_df(payload)
ParseAndCoerce(t) ==
    LET th == threads[t]
        v == validate_and_build_df(th.body)
    IN  IF th.body.t = "malformed"
        THEN Finish(t, {"get_json"}, HandlerExcept("BadRequest", "Failed to decode JSON object"))
        ELSE IF v.exc # ""
        THEN Finish(t, {"get_json", "validate_and_build_df"}, HandlerExcept(v.exc, v.msg))
        ELSE threads' = [threads EXCEPT ![t].pc = "coerced", ![t].df = v.df,
                            ![t].calls = {"get_json", "validate_and_build_df"}]

\* preds = model.predict(df), and with proba the try around predict_proba
Infer(t, proba) ==
    LET th == threads[t]
        r == predict(model, th.df)
    IN  IF r.exc # ""
        THEN Finish(t, th.calls \cup {"predict"}, HandlerExcept(r.exc, r.msg))
        ELSE threads' = [threads EXCEPT ![t].pc = "predicted", ![t].preds = r.preds,
                            ![t].probs = proba /\ model.predict_proba,
                            ![t].calls = th.calls \cup {"predict"} \cup
                                         (IF proba THEN {"predict_proba"} ELSE {})]

\* the value of res["Probabilities"], "absent" when probs is None
ProbabilitiesOf(th) ==
    IF ~th.probs THEN "absent" ELSE IF model.classes_ THEN "by_class" ELSE "list"

\* predict(), to the DataFrame
Predict1(t) ==
    /\ threads[t].pc = "recv"
    /\ threads[t].route = "/predict"
    /\ ParseAndCoerce(t)
    /\ StepFrame

\* predict(), inference
Predict2(t) ==
    /\ threads[t].pc = "coerced"
    /\ threads[t].route = "/predict"
    /\ Infer(t, TRUE)
    /\ StepFrame

\* predict(), the loop over preds and the response
Predict3(t) ==
    /\ threads[t].pc = "predicted"
    /\ threads[t].route = "/predict"
    /\ LET th == threads[t]
       IN  Finish(t, th.calls,
                  OkList("predictions",
                         [i \in 1..Len(th.preds) |->
                             Entry(th.preds[i], FALSE, NoRec, ProbabilitiesOf(th))]))
    /\ StepFrame

\* the entries of a loop that resolves every label, or the first exception
Resolved(th, probabilities) ==
    LET recs == [i \in 1..Len(th.preds) |-> recommend_from_complication(JStr(th.preds[i]))]
    IN  IF \E i \in 1..Len(recs) : recs[i].exc # ""
        THEN [exc |-> recs[CHOOSE i \in 1..Len(recs) : recs[i].exc # ""].exc, entries |-> <<>>]
        ELSE [exc |-> "",
              entries |-> [i \in 1..Len(recs) |->
                              Entry(th.preds[i], TRUE, recs[i].rec, probabilities)]]

\* a faulty variant: a Complication key is looked for in the records of a list too
recommend_begin_any_record(t) ==
    LET th == threads[t]
        first == IF th.body.t = "list" /\ th.body.items # <<>> THEN th.body.items[1]
                 ELSE th.body
    IN  IF th.body.t = "malformed" \/ ~Truthy(th.body)
        THEN Finish(t, {"get_json"}, HandlerExcept("ValueError", "Empty request body"))
        ELSE IF first.t = "dict" /\ HasKey(first, "Complication")
        THEN Finish(t, {"get_json", "recommend_from_complication"},
                    OkDirect(Get(first, "Complication"),
                             recommend_from_complication(Get(first, "Complication")).rec))
        ELSE ParseAndCoerce(t)

\* recommend(), to the direct answer or to the DataFrame
recommend_begin(t) ==
    LET th == threads[t]
    IN  IF th.body.t = "malformed"
        THEN Finish(t, {"get_json"}, HandlerExcept("BadRequest", "Failed to decode JSON object"))
        ELSE IF ~Truthy(th.body)
        THEN Finish(t, {"get_json"}, HandlerExcept("ValueError", "Empty request body"))
        ELSE IF th.body.t = "dict" /\ HasKey(th.body, "Complication")
        THEN LET comp == Get(th.body, "Complication")
                 r == recommend_from_complication(comp)
             IN  IF r.exc # ""
                 THEN Finish(t, {"get_json", "recommend_from_complication"},
                             HandlerExcept(r.exc, r.exc))
                 ELSE Finish(t, {"get_json", "recommend_from_complication"},
                             OkDirect(comp, r.rec))
        ELSE ParseAndCoerce(t)

\* recommend(), first step
Recommend1(t) ==
    /\ threads[t].pc = "recv"
    /\ threads[t].route = "/recommend"
    /\ recommend_begin(t)
    /\ StepFrame

\* recommend(), inference
Recommend2(t) ==
    /\ threads[t].pc = "coerced"
    /\ threads[t].route = "/recommend"
    /\ Infer(t, FALSE)
    /\ StepFrame

\* recommend(), the loop over preds and the response
Recommend3(t) ==
    /\ threads[t].pc = "predicted"
    /\ threads[t].route = "/recommend"
    /\ LET th == threads[t]
           r == Resolved(th, "absent")
       IN  IF r.exc # ""
           THEN Finish(t, th.calls \cup {"recommend_from_complication"},
                       HandlerExcept(r.exc, r.exc))
           ELSE Finish(t, th.calls \cup {"recommend_from_complication"},
                       OkList("recommendations", r.entries))
    /\ StepFrame

\* predict_recommend(), to the DataFrame
PredictRecommend1(t) ==
    /\ threads[t].pc = "recv"
    /\ threads[t].route = "/predict_recommend"
    /\ ParseAndCoerce(t)
    /\ StepFrame

\* predict_recommend(), inference
PredictRecommend2(t) ==
    /\ threads[t].pc = "coerced"
    /\ threads[t].route = "/predict_recommend"
    /\ Infer(t, TRUE)
    /\ StepFrame

\* predict_recommend(), the loop over preds and the response
PredictRecommend3(t) ==
    /\ threads[t].pc = "predicted"
    /\ threads[t].route = "/predict_recommend"
    /\ LET th == threads[t]
           r == Resolved(th, ProbabilitiesOf(th))
       IN  IF r.exc # ""
           THEN Finish(t, th.calls \cup {"recommend_from_complication"},
                       HandlerExcept(r.exc, r.exc))
           ELSE Finish(t, th.calls \cup {"recommend_from_complication"},
                       OkList("results", r.entries))
    /\ StepFrame

---------------------------------------------------------------------------
(* The requests of the service.                                            *)

\* a record with all fifteen features, keys not in the expected order, and a
\* key the pipeline does not know
FullRecord(age, loss, wbc, vital) ==
    JObj(<< KV("Postop_WBC", JInt(wbc)), KV("Postop_Hb", JInt(11)),
            KV("Vital_Instability", JStr(vital)), KV("Blood_Loss_ml", JInt(loss)),
            KV("Duration_Min", JInt(360)), KV("Surgery_Type", JStr(<<"W","h","i","p","p","l","e">>)),
            KV("Preop_WBC", JInt(8)), KV("Preop_Hb", JInt(12)),
            KV("Heart_Disease", JStr(<<"N","o">>)), KV("Hypertension", JStr(<<"Y","e","s">>)),
            KV("Diabetes", JStr(<<"Y","e","s">>)), KV("ASA_Score", JInt(3)), KV("BMI", JInt(26)),
            KV("Patient_ID", JInt(7)), KV("Gender", JStr(<<"M","a","l","e">>)), KV("Age", age) >>)

\* a record with few features
FewFields == JObj(<< KV("Gender", JStr(<<"M","a","l","e">>)), KV("Blood_Loss_ml", JInt(700)) >>)

\* the bodies POSTed to the service
Bodies ==
    { Malformed, JNone, JInt(5), JObj(<<>>), JArr(<<>>),
      JObj(<< KV("Complication", JStr(<<"I","N","F","E","C","T","I","O","N">>)) >>),
      JObj(<< KV("Complication", JNone), KV("Age", JInt(60)) >>),
      FewFields,
      FullRecord(JInt(60), 700, 8, <<"N","o">>),
      JArr(<< FullRecord(JInt(70), 100, 12, <<"N","o">>), FullRecord(JInt(60), 100, 8, <<"Y","e","s">>) >>),
      JArr(<< JObj(<< KV("Complication", JStr(sBleeding)), KV("Age", JInt(60)) >>) >>),
      JArr(<< JInt(1), JInt(2), JInt(3) >>) }

\* the POST routes
PostRoutes == {"/predict", "/recommend", "/predict_recommend"}

\* the state before the module is imported
InitService(mf, cf) ==
    /\ phase = "boot"
    /\ modelFile = mf
    /\ csvFile = cf
    /\ model = NoPipeline
    /\ med_map_df = <<>>
    /\ threads = [t \in Threads |-> Idle]

---------------------------------------------------------------------------
(* Harness of the resolver: calls of recommend_from_complication on a      *)
(* loaded table.                                                           *)

\* the pieces complication texts are put together from
Fragments ==
    { <<"I","n","f","e","c","t","i","o","n">>, <<"I","N","F","E","C","T","I","O","N">>, <<"i","n","f","e","c","t">>, <<"B","l","e","e","d">>, <<"b","l","e","e","d">>, <<"i","n","g">>,
      <<"O","r","g","a","n"," ">>, <<"o","r","g","a","n"," ">>, <<"F","a","i","l","u","r","e">>, <<"f","a","i","l","u","r","e">>, <<"N","o","n","e">>, <<"x">> }

RECURSIVE Texts(_)
\* the concatenations of at most k fragments
Texts(k) ==
    IF k = 0 THEN {<<>>}
    ELSE Texts(k - 1) \cup {x \o f : x \in Texts(k - 1), f \in Fragments}

\* the values recommend_from_complication is called on
Complications ==
    {JStr(x) : x \in Texts(MaxParts)} \cup
    {JNone, JBool(TRUE), JInt(0), JInt(5), JInt(12), JFloat(2), JStr(<<"X","Y","Z","-","u","n","k","n","o","w","n">>)}

\* the inputs whose first call is remembered
Probes == {JStr(<<"I","n","f","e","c","t","i","o","n">>), JStr(<<"o","r","g","a","n"," ","b","l","e","e","d">>), JStr(<<"N","o","n","e">>), JStr(<<"x">>)}

\* a call of the resolver and what it returned
Call(made, c, out) == [made |-> made, c |-> c, out |-> out]

\* no call yet
NoCall == Call(FALSE, JNone, Raised(""))

\* recommend_from_complication(c) is called on a probe, the first call made
ResolveProbe(c) ==
    /\ phase = "serving"
    /\ ~memo.made
    /\ memo' = Call(TRUE, c, recommend_from_complication(c))
    /\ UNCHANGED <<phase, modelFile, csvFile, model, med_map_df, threads, call, payload, built>>

\* recommend_from_complication(c) is called after the probe
Resolve(c) ==
    /\ phase = "serving"
    /\ memo.made
    /\ ~call.made
    /\ call' = Call(TRUE, c, recommend_from_complication(c))
    /\ UNCHANGED <<phase, modelFile, csvFile, model, med_map_df, threads, memo, payload, built>>

---------------------------------------------------------------------------
(* Harness of the coercion: validate_and_build_df on one payload.          *)

\* the elements array payloads are made of
Elements ==
    { FullRecord(JInt(60), 700, 8, <<"N","o">>),
      JObj(<< KV("Gender", JStr(<<"M","a","l","e">>)), KV("Age", JInt(70)) >>),
      JObj(<< KV("Blood_Loss_ml", JInt(700)), KV("Age", JNone), KV("note", JStr(<<"x">>)) >>),
      JObj(<< KV("Age", JStr(<<"a","b","c">>)) >>),
      JObj(<<>>),
      JInt(1), JStr(<<"a">>), JNone }

RECURSIVE Lists(_)
\* the lists of at most k elements
Lists(k) ==
    IF k = 0 THEN {<<>>}
    ELSE Lists(k - 1) \cup {Append(x, e) : x \in Lists(k - 1), e \in Elements}

\* the JSON values validate_and_build_df is called on
Payloads ==
    {JArr(x) : x \in Lists(MaxRecords)} \cup Elements \cup {JBool(TRUE), JFloat(2)}

\* what a call of validate_and_build_df gave
Built(done, out) == [done |-> done, out |-> out]

\* no call yet
NotBuilt == Built(FALSE, [exc |-> "", msg |-> "", df |-> NoFrame])

\* validate_and_build_df(payload) is called
Build ==
    /\ ~built.done
    /\ built' = Built(TRUE, validate_and_build_df(payload))
    /\ UNCHANGED <<phase, modelFile, csvFile, model, med_map_df, threads, call, memo, payload>>

---------------------------------------------------------------------------
(* Specifications.                                                         *)

\* the service, from any files on disk
Init ==
    /\ \E mf \in ModelFiles, cf \in CsvFiles : InitService(mf, cf)
    /\ call = NoCall
    /\ memo = NoCall
    /\ payload = JNone
    /\ built = NotBuilt

\* one step of the handler running on thread t
ThreadStep(t) ==
    \/ Index(t)
    \/ Predict1(t)
    \/ Predict2(t)
    \/ Predict3(t)
    \/ Recommend1(t)
    \/ Recommend2(t)
    \/ Recommend3(t)
    \/ PredictRecommend1(t)
    \/ PredictRecommend2(t)
    \/ PredictRecommend3(t)

Next ==
    \/ Startup
    \/ \E t \in Threads, body \in Bodies, route \in PostRoutes : Receive(t, route, body)
    \/ \E t \in Threads : Receive(t, "/", JNone)
    \/ \E t \in Threads : ThreadStep(t)
    \/ \E t \in Threads : Deliver(t)

Spec == Init /\ [][Next]_vars

\* the resolver on every table the service can load, and on the table of a
\* CSV that holds its header line alone
InitResolve ==
    /\ \E cf \in CsvFiles \cup {CsvOf(<<>>)} :
          InitService([exists |-> TRUE, pipeline |-> Pipeline("treeA", TRUE, TRUE, TRUE)], cf)
    /\ call = NoCall
    /\ memo = NoCall
    /\ payload = JNone
    /\ built = NotBuilt

NextResolve ==
    \/ Startup
    \/ \E c \in Probes : ResolveProbe(c)
    \/ \E c \in Complications : Resolve(c)

SpecResolve == InitResolve /\ [][NextResolve]_vars

\* the coercion on every payload
InitCoerce ==
    /\ InitService([exists |-> FALSE, pipeline |-> NoPipeline], NoFile)
    /\ call = NoCall
    /\ memo = NoCall
    /\ payload \in Payloads
    /\ built = NotBuilt

NextCoerce == Build

SpecCoerce == InitCoerce /\ [][NextCoerce]_vars

---------------------------------------------------------------------------
(* Properties of the resolver, checked under SpecResolve.                  *)

\* row i of the loaded table carries the label of c, compared without case
RowMatches(i, c) ==
    /\ med_map_df[i].Complication.t = "str"
    /\ Lower(med_map_df[i].Complication.s) = Lower(PyStr(c))

\* some row of the loaded table carries the label of c
TableMatches(c) == \E i \in 1..Len(med_map_df) : RowMatches(i, c)

\* the medication, dosage and duration of a recommendation
Advice(rec) == <<rec.Recommended_Medication, rec.Dosage, rec.Duration>>

\* the answer a call gave is the one the first matching branch gives
FirstMatchWins(k) ==
    LET text == Lower(PyStr(k.c))
        rec == k.out.rec
    IN  /\ \A i \in 1..Len(med_map_df) :
              (RowMatches(i, k.c) /\ \A j \in 1..(i - 1) : ~RowMatches(j, k.c))
              => Advice(rec) = <<med_map_df[i].Recommended_Medication,
                                 med_map_df[i].Dosage, med_map_df[i].Duration>>
        /\ ~TableMatches(k.c) =>
              \/ /\ Contains(text, kwInfect)
                 /\ Advice(rec) = <<"Antibiotics", "500 mg/day", "7 days">>
              \/ /\ ~Contains(text, kwInfect)
                 /\ Contains(text, kwBleed)
                 /\ Advice(rec) = <<"Blood Transfusion + Hemostatic Agent", "2 units", "1 days">>
              \/ /\ ~Contains(text, kwInfect)
                 /\ ~Contains(text, kwBleed)
                 /\ Contains(text, kwOrgan) \/ Contains(text, kwFailure)
                 /\ Advice(rec) = <<"IV Fluids + Vasopressors", "2 L/day", "5 days">>
              \/ /\ ~Contains(text, kwInfect)
                 /\ ~Contains(text, kwBleed)
                 /\ ~Contains(text, kwOrgan)
                 /\ ~Contains(text, kwFailure)
                 /\ Advice(rec) = <<"Pain Management", "100 mg/day", "1 days">>

\* C1: recommend_from_complication answers with the first row of the table whose
\* label equals str(c) without regard to case, else with Antibiotics when the
\* lowered text holds "infect", else with Blood Transfusion + Hemostatic Agent
\* when it holds "bleed", else with IV Fluids + Vasopressors when it holds
\* "organ" or "failure", else with Pain Management; and two inputs that differ
\* only in letter case get the same recommendation.
C1_FirstMatchWins ==
    /\ memo.made => FirstMatchWins(memo)
    /\ call.made => FirstMatchWins(call)
    /\ (memo.made /\ call.made /\ Lower(PyStr(memo.c)) = Lower(PyStr(call.c)))
          => call.out = memo.out

\* C1 witness: on the table read from the CSV, "Organ Bleed" follows "organ
\* bleed" and both get the row of the table, not the answer of a keyword
C1_Witness ==
    /\ csvFile = CsvSample
    /\ memo.made
    /\ memo.c = JStr(<<"o","r","g","a","n"," ","b","l","e","e","d">>)
    /\ call.made
    /\ call.c = JStr(<<"O","r","g","a","n"," ","B","l","e","e","d">>)
    /\ call.out.rec.Recommended_Medication = "Tranexamic Acid"

\* a call returned a dict with the four keys, each with a value
ReturnedOneRec(k) ==
    /\ k.out.exc = ""
    /\ DOMAIN k.out.rec = {"Recommended_Medication", "Dosage", "Duration", "Source"}
    /\ \A f \in DOMAIN k.out.rec : k.out.rec[f] # ""

\* C2: for every complication value, a string (the empty one and unknown ones
\* included) or None, a bool or a number, recommend_from_complication raises
\* nothing and returns one dict with Recommended_Medication, Dosage, Duration
\* and Source, and a second call on the same value returns the same dict.
C2_TotalDeterministic ==
    /\ memo.made => ReturnedOneRec(memo)
    /\ call.made => ReturnedOneRec(call)
    /\ (memo.made /\ call.made /\ memo.c = call.c) => call.out = memo.out

\* C2 witness: None, which is no string, resolved without an exception, after
\* an unknown text was
C2_Witness ==
    /\ memo.made
    /\ memo.c = JStr(<<"x">>)
    /\ memo.out.exc = ""
    /\ call.made
    /\ call.c = JNone
    /\ call.out.exc = ""
    /\ call.out.rec.Recommended_Medication = "Pain Management"

\* C8 as stated: the Source of a recommendation is "table" exactly when a row of
\* the table matched, and "rule" exactly when none did.
C8_SourceIsTable ==
    call.made =>
        /\ call.out.rec.Source = "table" <=> TableMatches(call.c)
        /\ call.out.rec.Source = "rule" <=> ~TableMatches(call.c)

\* C8 as amended: the Source of a recommendation is "medication_map.csv" exactly
\* when a row of the table matched, and "rule" exactly when none did; the text
\* "XYZ-unknown" gets Pain Management, 100 mg/day, 1 days from a rule.
C8_SourceIsFileName ==
    call.made =>
        /\ call.out.rec.Source = "medication_map.csv" <=> TableMatches(call.c)
        /\ call.out.rec.Source = "rule" <=> ~TableMatches(call.c)
        /\ call.c = JStr(<<"X","Y","Z","-","u","n","k","n","o","w","n">>) =>
              call.out.rec = Rec("Pain Management", "100 mg/day", "1 days", "rule")

\* C8 witness: on the built-in table, "INFECTION" is answered from the table
C8_Witness ==
    /\ ~csvFile.exists
    /\ call.made
    /\ call.c = JStr(<<"I","N","F","E","C","T","I","O","N">>)
    /\ TableMatches(call.c)
    /\ call.out.rec.Source = "medication_map.csv"

---------------------------------------------------------------------------
(* Properties of the coercion, checked under SpecCoerce.                   *)

\* a JSON object or an array of JSON objects
IsRecords(b) ==
    \/ b.t = "dict"
    \/ /\ b.t = "list"
       /\ \A i \in 1..Len(b.items) : b.items[i].t = "dict"

\* the records of such a value
RecordsOf(b) == IF b.t = "dict" THEN <<b>> ELSE b.items

\* a cell holds the value v of the input: a number by its value, None as a
\* missing cell, anything else as it is
Holds(cell, v) ==
    IF v.t \in {"int", "float"} THEN cell.t \in {"int", "float"} /\ cell.n = v.n
    ELSE IF v.t = "NoneType" THEN IsMissing(cell)
    ELSE cell = v

\* C6: for an object or an array of objects, validate_and_build_df returns a
\* table with the fifteen expected columns in the training order, whatever the
\* order of the keys; other keys are dropped; there is one row for each record,
\* in order; a field the record lacks is a missing cell and a field it has
\* keeps its value.
C6_FixedColumns ==
    (built.done /\ IsRecords(payload)) =>
        /\ built.out.exc = ""
        /\ built.out.df.columns =
              <<"Age", "Gender", "BMI", "ASA_Score", "Diabetes", "Hypertension",
                "Heart_Disease", "Preop_Hb", "Preop_WBC", "Surgery_Type", "Duration_Min",
                "Blood_Loss_ml", "Vital_Instability", "Postop_Hb", "Postop_WBC">>
        /\ Len(built.out.df.data) = Len(RecordsOf(payload))
        /\ \A i \in 1..Len(built.out.df.data) :
              /\ Len(built.out.df.data[i]) = Len(built.out.df.columns)
              /\ \A j \in 1..Len(built.out.df.data[i]) :
                    IF HasKey(RecordsOf(payload)[i], built.out.df.columns[j])
                    THEN Holds(built.out.df.data[i][j],
                               Get(RecordsOf(payload)[i], built.out.df.columns[j]))
                    ELSE IsMissing(built.out.df.data[i][j])

\* C6 witness: two records, the first with its keys out of order, a null and an
\* unknown key, the second without Blood_Loss_ml, coerced to two rows
C6_Witness ==
    /\ built.done
    /\ payload = JArr(<< JObj(<< KV("Blood_Loss_ml", JInt(700)), KV("Age", JNone),
                                 KV("note", JStr(<<"x">>)) >>),
                         JObj(<< KV("Gender", JStr(<<"M","a","l","e">>)), KV("Age", JInt(70)) >>) >>)
    /\ built.out.exc = ""
    /\ Len(built.out.df.data) = 2
    /\ built.out.df.data[2][1].n = 70
    /\ IsMissing(built.out.df.data[2][12])

---------------------------------------------------------------------------
(* Properties of the service, checked under Spec.                          *)

\* the response of a handler that returned: 200 with status "ok"
IsSuccess(resp) ==
    resp.code = 200 /\ resp.status = "ok" /\ resp.error = "" /\ ~resp.trace

\* the response of a handler that caught an exception: 400 with status
\* "error", the message and the trace
IsClientError(resp) ==
    resp.code = 400 /\ resp.status = "error" /\ resp.error # "" /\ resp.trace

\* C3: every POST to /predict, /recommend or /predict_recommend is answered,
\* with 200 and status "ok" or, when parsing, coercion or inference raised,
\* with 400, status "error", the message and a trace; never with a 500; a
\* handler answers once, when it is done, and the service keeps serving after
\* a failed request.
C3_AnsweredOkOrClientError ==
    \A t \in Threads :
        LET th == threads[t]
        IN  /\ th.pc # "idle" => phase = "serving"
            /\ (th.pc = "done" /\ th.route \in PostRoutes) =>
                  /\ IsSuccess(th.resp) \/ IsClientError(th.resp)
                  /\ th.body = Malformed => IsClientError(th.resp)
                  /\ ("validate_and_build_df" \in th.calls
                        /\ validate_and_build_df(th.body).exc # "") => IsClientError(th.resp)
                  /\ ("predict" \in th.calls /\ predict(model, th.df).exc # "")
                        => IsClientError(th.resp)
            /\ th.pc = "done" => th.resp.code # 0
            /\ th.pc # "done" => th.resp = NoResponse

\* C3 witness: inference raised in one handler, which answered 400, while the
\* other thread, free again, has taken the next request
C3_Witness ==
    /\ threads["t1"].pc = "done"
    /\ "predict" \in threads["t1"].calls
    /\ IsClientError(threads["t1"].resp)
    /\ threads["t2"].pc = "done"
    /\ IsSuccess(threads["t2"].resp)
    /\ threads["t2"].route = "/predict"

\* C4: a body that is neither an object nor an array of objects, an array with
\* an element that is no object included, is rejected by validate_and_build_df,
\* so that /predict answers 400 and the model is never called on it.
C4_NonRecordsRejected ==
    \A t \in Threads :
        LET th == threads[t]
        IN  (th.route = "/predict" /\ th.body # Malformed /\ ~IsRecords(th.body)) =>
                /\ th.pc \notin {"coerced", "predicted"}
                /\ "predict" \notin th.calls
                /\ th.pc = "done" => IsClientError(th.resp)

\* the answers of /recommend on a body that is coerced: the labels predicted
\* for the rows, each with its recommendation
RecommendedFor(th) ==
    /\ th.resp.list = "recommendations"
    /\ ~th.resp.direct
    /\ Len(th.resp.entries) = Len(predict(model, validate_and_build_df(th.body).df).preds)
    /\ \A i \in 1..Len(th.resp.entries) :
          LET label == predict(model, validate_and_build_df(th.body).df).preds[i]
          IN  /\ th.resp.entries[i].Complication = label
              /\ th.resp.entries[i].has_rec
              /\ th.resp.entries[i].Recommendation = recommend_from_complication(JStr(label)).rec

\* a /recommend handler that took the direct branch and answered
AnsweredDirectly(th) ==
    /\ th.pc = "done"
    /\ th.calls \cap {"validate_and_build_df", "predict", "predict_proba"} = {}
    /\ IsSuccess(th.resp)
    /\ th.resp.direct
    /\ th.resp.list = ""
    /\ th.resp.complication = Get(th.body, "Complication")
    /\ th.resp.recommendation = recommend_from_complication(Get(th.body, "Complication")).rec

\* C5 as stated: /recommend answers an object with a Complication key directly,
\* without the model; every other object or array of objects is coerced and
\* predicted on, and the answer lists each predicted label with its
\* recommendation.
C5_DirectOrPredicted ==
    \A t \in Threads :
        LET th == threads[t]
        IN  (th.route = "/recommend" /\ th.pc # "recv" /\ IsRecords(th.body)) =>
                IF th.body.t = "dict" /\ HasKey(th.body, "Complication")
                THEN AnsweredDirectly(th)
                ELSE /\ "validate_and_build_df" \in th.calls
                     /\ th.pc = "done" => "predict" \in th.calls
                     /\ (th.pc = "done" /\ th.resp.code = 200) => RecommendedFor(th)

\* C5 as amended: /recommend answers an object with a Complication key directly,
\* without the model; every other object or array of objects that is not empty
\* is coerced and predicted on, and the answer lists each predicted label with
\* its recommendation; the empty object and the empty array are answered 400,
\* "Empty request body", and are neither coerced nor predicted on.
C5_DirectOrPredictedUnlessEmpty ==
    \A t \in Threads :
        LET th == threads[t]
        IN  (th.route = "/recommend" /\ th.pc # "recv" /\ IsRecords(th.body)) =>
                IF th.body.t = "dict" /\ HasKey(th.body, "Complication")
                THEN AnsweredDirectly(th)
                ELSE IF RecordsOf(th.body) = <<>> \/ th.body = JObj(<<>>)
                THEN /\ th.pc = "done"
                     /\ IsClientError(th.resp)
                     /\ th.resp.error = "Empty request body"
                     /\ th.calls = {"get_json"}
                ELSE /\ "validate_and_build_df" \in th.calls
                     /\ th.pc = "done" => "predict" \in th.calls
                     /\ (th.pc = "done" /\ th.resp.code = 200) => RecommendedFor(th)

\* C5 witness: an array whose record carries a Complication key was predicted
\* on, and the answer is the recommendation for the predicted label, while the
\* other thread answered the object with a null Complication directly
C5_Witness ==
    /\ threads["t1"].route = "/recommend"
    /\ threads["t1"].pc = "done"
    /\ threads["t1"].body.t = "list"
    /\ Len(threads["t1"].body.items) = 1
    /\ HasKey(threads["t1"].body.items[1], "Complication")
    /\ threads["t1"].resp.code = 200
    /\ Len(threads["t1"].resp.entries) = 1
    /\ threads["t2"].route = "/recommend"
    /\ threads["t2"].pc = "done"
    /\ threads["t2"].resp.direct
    /\ threads["t2"].resp.complication = JNone

\* C7: a successful answer of /predict or /predict_recommend to an array of N
\* feature objects has N entries, entry i holding the prediction for record i
\* (and for /predict_recommend its recommendation); to one object, one entry.
C7_OneEntryPerRecord ==
    \A t \in Threads :
        LET th == threads[t]
            rows == validate_and_build_df(th.body).df.data
        IN  (th.pc = "done" /\ th.route \in {"/predict", "/predict_recommend"}
               /\ IsRecords(th.body) /\ th.resp.code = 200) =>
                /\ th.resp.list = (IF th.route = "/predict" THEN "predictions" ELSE "results")
                /\ Len(th.resp.entries) = Len(RecordsOf(th.body))
                /\ \A i \in 1..Len(th.resp.entries) :
                      /\ th.resp.entries[i].Complication = Tree(model.tree, rows[i])
                      /\ th.route = "/predict_recommend" =>
                            /\ th.resp.entries[i].has_rec
                            /\ th.resp.entries[i].Recommendation =
                                  recommend_from_complication(
                                      JStr(Tree(model.tree, rows[i]))).rec

\* C7 witness: an array of two records answered by /predict_recommend with two
\* entries whose labels differ
C7_Witness ==
    \E t \in Threads :
        /\ threads[t].pc = "done"
        /\ threads[t].route = "/predict_recommend"
        /\ threads[t].body.t = "list"
        /\ threads[t].resp.code = 200
        /\ Len(threads[t].resp.entries) = 2
        /\ threads[t].resp.entries[1].Complication # threads[t].resp.entries[2].Complication

\* C9: once the service serves, no step changes the pipeline or the lookup
\* table, which stay what startup loaded, whatever requests run on the two
\* threads and however their steps interleave; two handlers that answered the
\* same request gave the same response.
C9_SharedStateReadOnly ==
    /\ [][phase = "serving" =>
            (phase' = "serving" /\ model' = model /\ med_map_df' = med_map_df)]_vars
    /\ [](phase = "serving" =>
            (model = modelFile.pipeline /\ med_map_df = LoadMedMap(csvFile)))
    /\ [](\A t1 \in Threads, t2 \in Threads :
            (threads[t1].pc = "done" /\ threads[t2].pc = "done"
               /\ threads[t1].route = threads[t2].route
               /\ threads[t1].body = threads[t2].body)
            => threads[t1].resp = threads[t2].resp)

\* C9 witness: two handlers in the middle of their work at the same time, one
\* after inference and one before it, reading the table loaded from the CSV
C9_Witness ==
    /\ csvFile = CsvSample
    /\ threads["t1"].pc = "predicted"
    /\ threads["t1"].route = "/recommend"
    /\ threads["t2"].pc = "coerced"
    /\ threads["t2"].route = "/predict_recommend"

\* C10: no request is in a handler unless startup has loaded the artifact;
\* without the artifact the service never serves; without the CSV startup
\* succeeds and the table is the four built-in rows; with the CSV the table
\* holds the rows of the file and not the built-in ones; GET / answers "ok".
C10_StartupOrder ==
    /\ \A t \in Threads :
          /\ threads[t].pc # "idle" =>
                (phase = "serving" /\ modelFile.exists /\ model = modelFile.pipeline)
          /\ (threads[t].pc = "done" /\ threads[t].route = "/") => IsSuccess(threads[t].resp)
    /\ ~modelFile.exists => phase # "serving"
    /\ (phase # "boot" /\ modelFile.exists /\ ~csvFile.exists) => phase = "serving"
    /\ (phase = "serving" /\ ~csvFile.exists) =>
          /\ Len(med_map_df) = 4
          /\ [i \in 1..4 |-> med_map_df[i].Complication] =
                <<JStr(sInfection), JStr(sBleeding), JStr(sOrganFailure), JStr(sNone)>>
          /\ [i \in 1..4 |-> med_map_df[i].Recommended_Medication] =
                <<"Antibiotics", "Blood Transfusion + Hemostatic Agent",
                  "IV Fluids + Vasopressors", "Pain Management">>
    /\ (phase = "serving" /\ csvFile.exists) =>
          /\ Len(med_map_df) = Len(csvFile.lines)
          /\ \A i \in 1..Len(med_map_df) :
                /\ \/ med_map_df[i].Complication = JStr(csvFile.lines[i].Complication)
                   \/ /\ csvFile.lines[i].Complication \in NaLabels
                      /\ med_map_df[i].Complication = NaN
                /\ \A f \in {"Recommended_Medication", "Dosage", "Duration"} :
                      \/ med_map_df[i][f] = csvFile.lines[i][f]
                      \/ /\ csvFile.lines[i][f] \in NaTexts
                         /\ med_map_df[i][f] = NaNText

\* C10 witness: started without the CSV, the service answered GET / while the
\* table is the built-in one
C10_Witness ==
    /\ phase = "serving"
    /\ ~csvFile.exists
    /\ med_map_df = FallbackMap
    /\ \E t \in Threads :
          /\ threads[t].pc = "done"
          /\ threads[t].route = "/"
          /\ threads[t].resp.status = "ok"

===========================================================================
